---- MODULE Spec2Model ----
(***************************************************************************)
(* Model of the return pipeline of app.py: resample_and_calculate_returns  *)
(* and the POST /api/stock-data handler get_stock_data.                    *)
(*                                                                         *)
(* Representation.                                                         *)
(*   - A timestamp (an element of a pandas DatetimeIndex, a datetime) is a *)
(*     day ordinal: 0 is 2023-12-01, a Friday.  The calendar covers        *)
(*     December 2023, January 2024 and February 2024.                      *)
(*   - A 'YYYY-MM-DD' text is the triple <<y, m, d>>; texts are compared   *)
(*     field by field, which is how the zero-padded texts compare          *)
(*     character by character.                                             *)
(*   - A float is an exact rational <<num, den>>, den > 0, in lowest       *)
(*     terms; NaN is <<0, 0>>.                                             *)
(*   - A pandas Series is a function from its index (a set of day          *)
(*     ordinals) to its values.                                            *)
(***************************************************************************)
EXTENDS Integers, Sequences, FiniteSets, TLC

\* a missing request field (a date text is a triple, so None is the empty tuple)
None == <<>>
\* float NaN, among rationals <<num, den>> with den > 0
NaN == <<0, 0>>

---------------------------------------------------------------------------
(* Bounds of the model.                                                    *)

\* most rows one fetched frame holds
MaxLen == 3

\* A request fetches up to two frames, so the frames of the handler are drawn
\* from a small domain: closes 100 and 110, on the trading days 2023-12-28,
\* 2024-01-02, 01-05, 01-08 and 01-09.
Prices == {100, 110}
Days == {27, 32, 35, 38, 39}

\* The return calculation alone takes one frame, drawn from a wider domain:
\* the first NumCalcPrices closes of PriceTable, on the first NumCalcDays days
\* of TradingDays (the days above, then 2024-01-10).
PriceTable == <<100, 110, 99, 120>>
NumCalcPrices == 3
TradingDays == <<27, 32, 35, 38, 39, 40>>
NumCalcDays == 5
CalcPrices == {PriceTable[i] : i \in 1..NumCalcPrices}
CalcDays == {TradingDays[i] : i \in 1..NumCalcDays}

---------------------------------------------------------------------------
(* Rational arithmetic standing for float arithmetic.                      *)

Abs(x) == IF x < 0 THEN -x ELSE x

RECURSIVE Gcd(_, _)
Gcd(a, b) == IF b = 0 THEN a ELSE Gcd(b, a % b)

Rat(n, d) ==
    LET g == Gcd(Abs(n), Abs(d))
        s == IF d < 0 THEN -1 ELSE 1
    IN  <<(s * n) \div g, (s * d) \div g>>

RatInt(n) == <<n, 1>>
Lcm(a, b) == (a \div Gcd(a, b)) * b
RatAdd(p, q) ==
    LET l == Lcm(p[2], q[2])
    IN  Rat(p[1] * (l \div p[2]) + q[1] * (l \div q[2]), l)
RatNeg(p) == <<-p[1], p[2]>>
RatSub(p, q) == RatAdd(p, RatNeg(q))
\* cross-reduced, so that no intermediate product is larger than the result
RatMul(p, q) ==
    LET g1 == Gcd(Abs(p[1]), q[2])
        g2 == Gcd(Abs(q[1]), p[2])
    IN  IF p[1] = 0 \/ q[1] = 0 THEN <<0, 1>>
        ELSE <<(p[1] \div g1) * (q[1] \div g2), (p[2] \div g2) * (q[2] \div g1)>>
RatInv(p) == IF p[1] < 0 THEN <<-p[2], -p[1]>> ELSE <<p[2], p[1]>>
RatDiv(p, q) == RatMul(p, RatInv(q))

---------------------------------------------------------------------------
(* Calendar: datetime.strptime / strftime with '%Y-%m-%d', timedelta.      *)

\* datetime.strptime(text, '%Y-%m-%d')
Strptime(t) ==
    IF t[1] = 2023 /\ t[2] = 12 THEN t[3] - 1
    ELSE IF t[1] = 2024 /\ t[2] = 1 THEN 30 + t[3]
    ELSE 61 + t[3]

\* .strftime('%Y-%m-%d')
Strftime(o) ==
    IF o < 31 THEN <<2023, 12, o + 1>>
    ELSE IF o < 62 THEN <<2024, 1, o - 30>>
    ELSE <<2024, 2, o - 61>>

\* text comparison of two 'YYYY-MM-DD' texts: a >= b
TextGE(a, b) ==
    \/ a[1] > b[1]
    \/ a[1] = b[1] /\ a[2] > b[2]
    \/ a[1] = b[1] /\ a[2] = b[2] /\ a[3] >= b[3]

\* datetime.weekday(): Monday is 0, Friday is 4
Weekday(o) == (o + 4) % 7

\* label of the 'W-FRI' bucket of a timestamp: the Friday on or after it
WeekEnd(o) == o + ((4 - Weekday(o)) % 7)

\* label of the 'M' bucket of a timestamp: the last day of its month
MonthEnd(o) == IF o < 31 THEN 30 ELSE IF o < 62 THEN 61 ELSE 90

---------------------------------------------------------------------------
(* pandas Series operations used by the pipeline.                          *)

Min(S) == CHOOSE x \in S : \A y \in S : x <= y
Max(S) == CHOOSE x \in S : \A y \in S : x >= y

\* Series.ffill(): the value at d, or the last value before d that is not NaN
Ffill(s, d) ==
    LET seen == {e \in DOMAIN s : e <= d /\ s[e] # NaN}
    IN  IF seen = {} THEN NaN ELSE s[Max(seen)]

\* the change taken relative to the current value instead of the previous one
PctChangeOnCurrent(s) ==
    [d \in DOMAIN s |->
        IF d = Min(DOMAIN s) THEN NaN
        ELSE LET cur == Ffill(s, d)
                 prv == Ffill(s, Max({e \in DOMAIN s : e < d}))
             IN  IF cur = NaN \/ prv = NaN THEN NaN
                 ELSE RatSub(RatInt(1), RatDiv(prv, cur))]

\* Series.pct_change(): periods=1, fill_method='pad' (values / values.shift(1) - 1
\* on the forward-filled values, the default of the pandas releases that
\* accept the 'M' rule of line 61); the first element has no predecessor
PctChange(s) ==
    [d \in DOMAIN s |->
        IF d = Min(DOMAIN s) THEN NaN
        ELSE LET cur == Ffill(s, d)
                 prv == Ffill(s, Max({e \in DOMAIN s : e < d}))
             IN  IF cur = NaN \/ prv = NaN THEN NaN
                 ELSE RatSub(RatDiv(cur, prv), RatInt(1))]

\* series * 100
Times100(s) ==
    [d \in DOMAIN s |-> IF s[d] = NaN THEN NaN ELSE RatMul(s[d], RatInt(100))]

\* price_df['Close'] as a float series
Close(price_df) == [d \in DOMAIN price_df |-> RatInt(price_df[d])]

\* the bucket labels of Series.resample(rule): every period from the first
\* row's to the last row's, empty ones included
Buckets(idx, rule) ==
    IF rule = "W-FRI"
    THEN {l \in WeekEnd(Min(idx))..WeekEnd(Max(idx)) : (l - WeekEnd(Min(idx))) % 7 = 0}
    ELSE {MonthEnd(o) : o \in Min(idx)..Max(idx)}

BucketOf(o, rule) == IF rule = "W-FRI" THEN WeekEnd(o) ELSE MonthEnd(o)

\* Series.resample(rule).last(): the last row of each bucket, NaN for an
\* empty bucket
ResampleLast(s, rule) ==
    [l \in Buckets(DOMAIN s, rule) |->
        LET rows == {d \in DOMAIN s : BucketOf(d, rule) = l}
        IN  IF rows = {} THEN NaN ELSE s[Max(rows)]]

\* Series.dropna()
Dropna(s) == [d \in {e \in DOMAIN s : s[e] # NaN} |-> s[d]]

\* no truncation at all
LocFromUntrimmed(s, start_text) == s

\* series.loc[start_date:] on a DatetimeIndex: the text is parsed and the
\* rows at or after that timestamp are kept
LocFrom(s, start_text) ==
    [d \in {e \in DOMAIN s : e >= Strptime(start_text)} |-> s[d]]

\* round(2) of a float, as a count of hundredths (ties to even)
Round2(v) ==
    LET n == v[1] * 100
        q == n \div v[2]
        r == n % v[2]
    IN  IF 2 * r > v[2] THEN q + 1
        ELSE IF 2 * r < v[2] THEN q
        ELSE IF q % 2 = 0 THEN q ELSE q + 1

RECURSIVE SumDefined(_, _)
\* sum of the values the series of a list have at d, skipping NaN and
\* series that have no row at d
SumDefined(list, d) ==
    IF list = <<>> THEN <<0, 1>>
    ELSE LET s == Head(list)
             rest == SumDefined(Tail(list), d)
         IN  IF d \in DOMAIN s /\ s[d] # NaN THEN RatAdd(s[d], rest) ELSE rest

RECURSIVE CountDefined(_, _)
CountDefined(list, d) ==
    IF list = <<>> THEN 0
    ELSE LET s == Head(list)
         IN  CountDefined(Tail(list), d)
               + (IF d \in DOMAIN s /\ s[d] # NaN THEN 1 ELSE 0)

\* the row mean with a missing value counted as zero
ConcatMeanZeroFill(list) ==
    [d \in UNION {DOMAIN list[i] : i \in 1..Len(list)} |->
        IF CountDefined(list, d) = 0 THEN NaN
        ELSE RatDiv(SumDefined(list, d), RatInt(Len(list)))]

\* pd.concat(list, axis=1).mean(axis=1): outer join on the index, then the
\* row mean with skipna; a row without any value is NaN
ConcatMean(list) ==
    [d \in UNION {DOMAIN list[i] : i \in 1..Len(list)} |->
        IF CountDefined(list, d) = 0 THEN NaN
        ELSE RatDiv(SumDefined(list, d), RatInt(CountDefined(list, d)))]

---------------------------------------------------------------------------
(* src/app.py, resample_and_calculate_returns                              *)

resample_and_calculate_returns(price_df, timeframe) ==
    IF timeframe = "D"
    THEN Times100(PctChange(Close(price_df)))
    ELSE LET resample_period == IF timeframe = "W" THEN "W-FRI" ELSE "M"
             resampled_price == ResampleLast(Close(price_df), resample_period)
         IN  Times100(PctChange(resampled_price))

---------------------------------------------------------------------------
(* src/app.py, get_stock_data: the state of one request.                   *)

VARIABLES
    themes,             \* request body: sequence of [name, codes]
    start_date,         \* request body: 'startDate' text, or None
    end_date,           \* request body: 'endDate' text, or None
    timeframe,          \* request body: "D", "W" or "M"
    pc,                 \* position of the handler
    ti,                 \* index of the theme of the outer loop
    ci,                 \* index of the code of the inner loop
    theme_period_returns_list,
    themed_returns_data,
    stock_level_returns,
    price_df,           \* the frame of the last fetch that returned
    period_return,      \* the last series resample_and_calculate_returns gave
    fetch_log,          \* the calls made to fdr.DataReader, in order
    outcome,            \* per executed try block: what it raised and appended
    response            \* the response returned, [status |-> 0] while none is

vars == <<themes, start_date, end_date, timeframe, pc, ti, ci,
          theme_period_returns_list, themed_returns_data, stock_level_returns,
          price_df, period_return, fetch_log, outcome, response>>

\* the symbol directory loaded at start-up (lines 16-48): code "A" is listed,
\* code "B" is not
ALL_STOCKS_LIST == <<[Code |-> "A", Name |-> "Alpha"]>>

\* lines 89-90: the display name of a code, the code itself when not listed
StockName(code) ==
    LET hits == {i \in 1..Len(ALL_STOCKS_LIST) : ALL_STOCKS_LIST[i].Code = code}
    IN  IF hits = {} THEN code ELSE ALL_STOCKS_LIST[Min(hits)].Name

\* the request bodies explored
ThemeChoices ==
    { <<>>,
      <<[name |-> "T1", codes |-> <<"A">>]>>,
      <<[name |-> "T1", codes |-> <<"A", "B">>]>>,
      <<[name |-> "T1", codes |-> <<"A">>], [name |-> "T2", codes |-> <<"B">>]>>,
      <<[name |-> "T1", codes |-> <<>>], [name |-> "T2", codes |-> <<"A">>]>> }

DateChoices ==
    { <<<<2024, 1, 8>>, <<2024, 1, 10>>>>,
      <<<<2024, 1, 3>>, <<2024, 1, 8>>>>,
      <<None, <<2024, 1, 10>>>>,
      <<<<2024, 1, 8>>, None>> }

Timeframes == {"D", "W", "M"}

NoResponse == [status |-> 0]

Init ==
    /\ themes \in ThemeChoices
    /\ \E dc \in DateChoices : start_date = dc[1] /\ end_date = dc[2]
    /\ timeframe \in Timeframes
    /\ pc = "validate"
    /\ ti = 1
    /\ ci = 1
    /\ theme_period_returns_list = <<>>
    /\ themed_returns_data = <<>>
    /\ stock_level_returns = <<>>
    /\ price_df = <<>>
    /\ period_return = <<>>
    /\ fetch_log = <<>>
    /\ outcome = <<>>
    /\ response = NoResponse

\* the check without end_date
MissingParametersNoEnd ==
    \/ start_date = None
    \/ themes = <<>>

\* line 73: not all([start_date, end_date]) or not themes
MissingParameters ==
    \/ ~(start_date # None /\ end_date # None)
    \/ themes = <<>>

\* lines 76-77: (strptime(start_date) - timedelta(days=7)).strftime(...)
BufferDays == 7
effective_start_date == Strftime(Strptime(start_date) - BufferDays)

\* lines 67-80
Validate ==
    /\ pc = "validate"
    /\ IF MissingParameters
       THEN /\ response' = [status |-> 400, error |-> "missing parameters"]
            /\ pc' = "done"
       ELSE /\ response' = response
            /\ pc' = "theme"
    /\ UNCHANGED <<themes, start_date, end_date, timeframe, ti, ci,
                   theme_period_returns_list, themed_returns_data,
                   stock_level_returns, price_df, period_return, fetch_log,
                   outcome>>

\* lines 82-86: the next theme of the loop, with a fresh list
BeginTheme ==
    /\ pc = "theme"
    /\ ti <= Len(themes)
    /\ theme_period_returns_list' = <<>>
    /\ ci' = 1
    /\ pc' = "symbol"
    /\ UNCHANGED <<themes, start_date, end_date, timeframe, ti,
                   themed_returns_data, stock_level_returns, price_df,
                   period_return, fetch_log, outcome, response>>

\* fdr.DataReader(code, start, end), the price source: the frames it may
\* return hold at most MaxLen rows, on trading days of [start, end] (no upper
\* end when end is None), each with one of the closes
FramesOver(start_text, end_text, days, closes) ==
    LET window == {d \in days : /\ d >= Strptime(start_text)
                                /\ end_text # None => d <= Strptime(end_text)}
    IN  UNION {[idx -> closes] :
                 idx \in {x \in SUBSET window : Cardinality(x) <= MaxLen}}

Frames(start_text, end_text) == FramesOver(start_text, end_text, Days, Prices)

\* lines 99-105: the stock-level records of one symbol; value counts hundredths
StockFrame(df, code) ==
    LET daily_return == Times100(PctChange(Close(df)))
        stock_df == {[date |-> Strftime(d),
                      stock_name |-> <<StockName(code), code>>,
                      value |-> Round2(daily_return[d])] :
                        d \in DOMAIN Dropna(daily_return)}
    IN  {r \in stock_df : TextGE(r.date, start_date)}

Call(code) == [code |-> code, start |-> effective_start_date, end |-> end_date]

\* an exception that leaves the inner loop instead of continuing it
NextCodeBreak(raised) == IF raised THEN Len(themes[ti].codes) + 1 ELSE ci + 1

\* where the inner loop goes after a try block, raised or not (line 87, 107)
NextCode(raised) == ci + 1

\* lines 87-107: one pass of the inner loop.  An exception may be raised by
\* the fetch (line 92), by the period returns (line 95) or while the
\* stock-level frame is built (lines 99-105); the except clause swallows it.
ProcessSymbol ==
    /\ pc = "symbol"
    /\ ci <= Len(themes[ti].codes)
    /\ LET code == themes[ti].codes[ci]
           at == <<ti, ci>>
       IN  /\ fetch_log' = Append(fetch_log, Call(code))
           /\ \/ \* line 92 raises
                 /\ outcome' = Append(outcome,
                        [at |-> at, raised |-> "fetch", appended |-> FALSE,
                         recorded |-> FALSE])
                 /\ ci' = NextCode(TRUE)
                 /\ UNCHANGED <<price_df, period_return,
                                theme_period_returns_list, stock_level_returns>>
              \/ \* line 92 returns a frame
                 \E df \in Frames(effective_start_date, end_date) :
                   /\ price_df' = df
                   /\ IF df = <<>>
                      THEN \* line 94: an empty frame is passed over
                           /\ outcome' = Append(outcome,
                                  [at |-> at, raised |-> "no", appended |-> FALSE,
                                   recorded |-> FALSE])
                           /\ ci' = NextCode(FALSE)
                           /\ UNCHANGED <<period_return,
                                          theme_period_returns_list,
                                          stock_level_returns>>
                      ELSE \/ \* line 95 raises
                              /\ outcome' = Append(outcome,
                                     [at |-> at, raised |-> "returns",
                                      appended |-> FALSE, recorded |-> FALSE])
                              /\ ci' = NextCode(TRUE)
                              /\ UNCHANGED <<period_return,
                                             theme_period_returns_list,
                                             stock_level_returns>>
                           \/ \* lines 95-96, then lines 98-105
                              /\ period_return' =
                                    resample_and_calculate_returns(df, timeframe)
                              /\ theme_period_returns_list' =
                                    Append(theme_period_returns_list, period_return')
                              /\ IF timeframe = "D"
                                 THEN \/ /\ stock_level_returns' =
                                             Append(stock_level_returns,
                                                    StockFrame(df, code))
                                         /\ outcome' = Append(outcome,
                                              [at |-> at, raised |-> "no",
                                               appended |-> TRUE,
                                               recorded |-> TRUE])
                                         /\ ci' = NextCode(FALSE)
                                      \/ \* lines 99-105 raise
                                         /\ stock_level_returns' = stock_level_returns
                                         /\ outcome' = Append(outcome,
                                              [at |-> at, raised |-> "stock_df",
                                               appended |-> TRUE,
                                               recorded |-> FALSE])
                                         /\ ci' = NextCode(TRUE)
                                 ELSE /\ stock_level_returns' = stock_level_returns
                                      /\ outcome' = Append(outcome,
                                              [at |-> at, raised |-> "no",
                                               appended |-> TRUE,
                                               recorded |-> FALSE])
                                      /\ ci' = NextCode(FALSE)
    /\ UNCHANGED <<themes, start_date, end_date, timeframe, pc, ti,
                   themed_returns_data, response>>

\* lines 110-111: the theme's average series
ThemeAverage(list) == Dropna(ConcatMean(list))

\* lines 109-111: the end of one pass of the outer loop
FinishTheme ==
    /\ pc = "symbol"
    /\ ci > Len(themes[ti].codes)
    /\ themed_returns_data' =
          IF theme_period_returns_list # <<>>
          THEN (themes[ti].name :> ThemeAverage(theme_period_returns_list))
                 @@ themed_returns_data
          ELSE themed_returns_data
    /\ ti' = ti + 1
    /\ pc' = "theme"
    /\ UNCHANGED <<themes, start_date, end_date, timeframe, ci,
                   theme_period_returns_list, stock_level_returns, price_df,
                   period_return, fetch_log, outcome, response>>

RECURSIVE SumOver(_, _)
\* the sum of the values of s on the rows D
SumOver(s, D) ==
    IF D = {} THEN <<0, 1>>
    ELSE LET d == Min(D) IN RatAdd(s[d], SumOver(s, D \ {d}))

\* Pearson with variances that are not centred on the mean
PearsonUncentred(x, y) ==
    LET P   == DOMAIN x \cap DOMAIN y
        n   == RatInt(Cardinality(P))
        sx  == SumOver(x, P)
        sy  == SumOver(y, P)
        sxy == SumOver([d \in P |-> RatMul(x[d], y[d])], P)
        sxx == SumOver([d \in P |-> RatMul(x[d], x[d])], P)
        syy == SumOver([d \in P |-> RatMul(y[d], y[d])], P)
        cov == RatSub(RatMul(n, sxy), RatMul(sx, sy))
        vx  == RatMul(n, sxx)
        vy  == RatMul(n, syy)
    IN  IF vx[1] = 0 \/ vy[1] = 0
        THEN [nan |-> TRUE, cov |-> <<0, 1>>, vx |-> <<0, 1>>, vy |-> <<0, 1>>]
        ELSE [nan |-> FALSE, cov |-> cov, vx |-> vx, vy |-> vy]

\* DataFrame.corr() for one pair of columns: Pearson over the rows where
\* both columns have a value (min_periods=1).  The coefficient is
\* cov / sqrt(vx * vy); it is kept as these three moments (each scaled by the
\* square of the number of rows), and is NaN when vx * vy is 0.
Pearson(x, y) ==
    LET P   == DOMAIN x \cap DOMAIN y
        n   == RatInt(Cardinality(P))
        sx  == SumOver(x, P)
        sy  == SumOver(y, P)
        sxy == SumOver([d \in P |-> RatMul(x[d], y[d])], P)
        sxx == SumOver([d \in P |-> RatMul(x[d], x[d])], P)
        syy == SumOver([d \in P |-> RatMul(y[d], y[d])], P)
        cov == RatSub(RatMul(n, sxy), RatMul(sx, sy))
        vx  == RatSub(RatMul(n, sxx), RatMul(sx, sx))
        vy  == RatSub(RatMul(n, syy), RatMul(sy, sy))
    IN  IF vx[1] = 0 \/ vy[1] = 0
        THEN [nan |-> TRUE, cov |-> <<0, 1>>, vx |-> <<0, 1>>, vy |-> <<0, 1>>]
        ELSE [nan |-> FALSE, cov |-> cov, vx |-> vx, vy |-> vy]

\* lines 116-118: the correlation matrix of the themes' series from start_date on
CorrelationMatrix(data) ==
    LET correlation_df == [n \in DOMAIN data |-> LocFrom(data[n], start_date)]
    IN  [a \in DOMAIN data |->
           [b \in DOMAIN data |-> Pearson(correlation_df[a], correlation_df[b])]]

\* lines 120-128: the records of the themes' series from start_date on
FinalThemedReturns(data) ==
    UNION {{[date |-> Strftime(d), sector |-> n,
             value |-> Round2(data[n][d])] :
               d \in DOMAIN LocFrom(data[n], start_date)} : n \in DOMAIN data}

\* the check left out
NoThemeDataSkipped(data) == FALSE

\* line 113: not themed_returns_data
NoThemeData(data) == DOMAIN data = {}

\* lines 113-138
Respond ==
    /\ pc = "theme"
    /\ ti > Len(themes)
    /\ response' =
          IF NoThemeData(themed_returns_data)
          THEN [status |-> 500, error |-> "no data"]
          ELSE [status |-> 200,
                themed_returns |-> FinalThemedReturns(themed_returns_data),
                stock_level_returns |->
                    UNION {stock_level_returns[i] :
                             i \in 1..Len(stock_level_returns)},
                correlation_matrix |-> CorrelationMatrix(themed_returns_data)]
    /\ pc' = "done"
    /\ UNCHANGED <<themes, start_date, end_date, timeframe, ti, ci,
                   theme_period_returns_list, themed_returns_data,
                   stock_level_returns, price_df, period_return, fetch_log,
                   outcome>>

Next ==
    \/ Validate
    \/ BeginTheme
    \/ ProcessSymbol
    \/ FinishTheme
    \/ Respond

Spec == Init /\ [][Next]_vars

---------------------------------------------------------------------------
(* The return calculation alone: one fetched frame, of the wider domain,   *)
(* put through lines 94-105.                                               *)

InitCalc ==
    /\ themes = <<[name |-> "T1", codes |-> <<"A">>]>>
    /\ \E dc \in DateChoices :
          /\ dc[1] # None /\ dc[2] # None
          /\ start_date = dc[1] /\ end_date = dc[2]
    /\ timeframe \in Timeframes
    /\ pc = "calc"
    /\ ti = 1
    /\ ci = 1
    /\ theme_period_returns_list = <<>>
    /\ themed_returns_data = <<>>
    /\ stock_level_returns = <<>>
    /\ price_df \in FramesOver(effective_start_date, end_date, CalcDays, CalcPrices)
                       \ {<<>>}
    /\ period_return = <<>>
    /\ fetch_log = <<>>
    /\ outcome = <<>>
    /\ response = NoResponse

\* lines 94-105 on price_df
ComputeReturns ==
    /\ pc = "calc"
    /\ period_return' = resample_and_calculate_returns(price_df, timeframe)
    /\ theme_period_returns_list' = <<period_return'>>
    /\ stock_level_returns' =
          IF timeframe = "D"
          THEN <<StockFrame(price_df, themes[ti].codes[ci])>>
          ELSE <<>>
    /\ pc' = "calc_done"
    /\ UNCHANGED <<themes, start_date, end_date, timeframe, ti, ci,
                   themed_returns_data, price_df, fetch_log, outcome, response>>

NextCalc == ComputeReturns

SpecCalc == InitCalc /\ [][NextCalc]_vars

---------------------------------------------------------------------------
(* Properties.                                                             *)

\* the request lacks a required field
RequestIncomplete == themes = <<>> \/ start_date = None \/ end_date = None

Finished == pc = "done"
Succeeded == pc = "done" /\ response.status = 200

\* the fetch of a try block failed: it raised, or it returned no rows
FetchFailed(o) == o.raised = "fetch" \/ (o.raised = "no" /\ ~o.appended)

RECURSIVE CodesFrom(_)
\* the codes of the themes from theme i on, in request order
CodesFrom(i) ==
    IF i > Len(themes) THEN <<>> ELSE themes[i].codes \o CodesFrom(i + 1)

RequestedCodes == CodesFrom(1)
FetchedCodes == [i \in 1..Len(fetch_log) |-> fetch_log[i].code]

\* C1: a request with an empty themes list, or without startDate or endDate,
\* is answered with an error, and no price is fetched and no return computed
\* for it.
C1_IncompleteRequestRejected ==
    RequestIncomplete =>
        /\ pc \in {"validate", "done"}
        /\ fetch_log = <<>>
        /\ outcome = <<>>
        /\ period_return = <<>>
        /\ themed_returns_data = <<>>
        /\ pc = "done" => response.status = 400

C1_Witness ==
    /\ RequestIncomplete
    /\ themes # <<>>
    /\ start_date # None
    /\ pc = "done"
    /\ response.status = 400

\* C2: when the fetch fails for every symbol of every theme of a complete
\* request, the response is an error, never a success payload.
C2_AllFetchesFailedIsError ==
    (/\ Finished
     /\ ~RequestIncomplete
     /\ \A i \in 1..Len(outcome) : FetchFailed(outcome[i]))
        => response.status = 500

C2_Witness ==
    /\ Finished
    /\ ~RequestIncomplete
    /\ Len(outcome) = 2
    /\ outcome[1].raised = "fetch"
    /\ outcome[2].raised = "no" /\ ~outcome[2].appended
    /\ response.status = 500

\* C3 (as claimed): when no theme has any value at or after the requested
\* start, the request fails with an error response.
C3_NoDataAfterTruncationIsError ==
    (/\ Finished
     /\ ~RequestIncomplete
     /\ \A n \in DOMAIN themed_returns_data :
           \A d \in DOMAIN themed_returns_data[n] : d < Strptime(start_date))
        => response.status # 200

\* C4 (as claimed): a symbol whose try block raised, wherever it raised,
\* adds nothing to its theme's list of series and no stock-level frame.
C4_RaisedSymbolContributesNothing ==
    \A i \in 1..Len(outcome) :
        outcome[i].raised # "no" => ~outcome[i].appended /\ ~outcome[i].recorded

\* C5: every fetch starts 7 calendar days before the requested start, and
\* every record of themed_returns and of stock_level_returns of a success
\* response is dated at or after the requested start.
C5_BufferedFetchTrimmedOutput ==
    /\ \A i \in 1..Len(fetch_log) :
          Strptime(fetch_log[i].start) = Strptime(start_date) - 7
    /\ Succeeded =>
          /\ \A r \in response.themed_returns : TextGE(r.date, start_date)
          /\ \A r \in response.stock_level_returns : TextGE(r.date, start_date)

\* a success whose themes hold a value of the warm-up window, which the
\* output leaves out
C5_Witness ==
    /\ Succeeded
    /\ response.themed_returns # {}
    /\ response.stock_level_returns # {}
    /\ \E n \in DOMAIN themed_returns_data :
          \E d \in DOMAIN themed_returns_data[n] : d < Strptime(start_date)

\* the theme whose pass of the outer loop has just ended, and its series
JustFinished == pc = "theme" /\ ti > 1 /\ theme_period_returns_list # <<>>
Contributors(d) ==
    {i \in 1..Len(theme_period_returns_list) :
        /\ d \in DOMAIN theme_period_returns_list[i]
        /\ theme_period_returns_list[i][d] # NaN}

RECURSIVE SumAt(_, _)
SumAt(I, d) ==
    IF I = {} THEN <<0, 1>>
    ELSE LET i == Min(I)
         IN  RatAdd(theme_period_returns_list[i][d], SumAt(I \ {i}, d))

\* C6: a theme's average on a date is the mean of the values of exactly the
\* member symbols that have a value on that date, and a date on which none
\* has a value is not in the theme's series.
C6_AverageOverPresentSymbols ==
    JustFinished =>
        LET avg == themed_returns_data[themes[ti - 1].name]
        IN  \A d \in 0..90 :
              IF Contributors(d) = {}
              THEN d \notin DOMAIN avg
              ELSE /\ d \in DOMAIN avg
                   /\ RatMul(avg[d], RatInt(Cardinality(Contributors(d))))
                        = SumAt(Contributors(d), d)

\* two member series: on one date only one of them has a value (10) and the
\* average is that value; on another date both have one
C6_Witness ==
    /\ JustFinished
    /\ Len(theme_period_returns_list) = 2
    /\ LET avg == themed_returns_data[themes[ti - 1].name]
       IN  /\ \E d \in DOMAIN avg :
                 /\ Cardinality(Contributors(d)) = 1
                 /\ avg[d] = <<10, 1>>
           /\ \E d \in DOMAIN avg :
                 /\ Cardinality(Contributors(d)) = 2
                 /\ theme_period_returns_list[1][d] # theme_period_returns_list[2][d]

Calculated == pc = "calc_done"
PrevRow(d) == Max({e \in DOMAIN price_df : e < d})

\* C7: the daily returns of a frame of L rows have exactly L-1 entries: none
\* for the first row, and (close[t] - close[t-1]) / close[t-1] * 100 for
\* every later row t; the stock-level records carry them rounded to 2
\* decimals.
C7_DailyReturns ==
    (Calculated /\ timeframe = "D") =>
        LET returns == Dropna(period_return)
            first == Min(DOMAIN price_df)
        IN  /\ Cardinality(DOMAIN returns) = Cardinality(DOMAIN price_df) - 1
            /\ first \notin DOMAIN returns
            /\ \A d \in DOMAIN price_df \ {first} :
                  /\ d \in DOMAIN returns
                  /\ returns[d] = Rat((price_df[d] - price_df[PrevRow(d)]) * 100,
                                      price_df[PrevRow(d)])
                  /\ d >= Strptime(start_date) =>
                        \E r \in stock_level_returns[1] :
                          /\ r.date = Strftime(d)
                          /\ r.value = Round2(returns[d])
            /\ \A r \in stock_level_returns[1] :
                  Strptime(r.date) \in DOMAIN returns

\* closes 100, 110, 99 give 10.00 and -10.00
C7_Witness ==
    /\ Calculated
    /\ timeframe = "D"
    /\ price_df = (35 :> 100) @@ (38 :> 110) @@ (39 :> 99)
    /\ Dropna(period_return) = (38 :> <<10, 1>>) @@ (39 :> <<-10, 1>>)
    /\ {r.value : r \in stock_level_returns[1]} = {1000, -1000}

\* the fetched frame has a row in the buffer [effectiveStart, requestedStart)
\* and a row at or after requestedStart
RowInBuffer == \E d \in DOMAIN price_df : d < Strptime(start_date)
RowFromStart == \E d \in DOMAIN price_df : d >= Strptime(start_date)

\* C8 (as claimed): for every timeframe, with a row fetched in the 7-day
\* buffer and a row fetched after it, the point of the return series that
\* has no defined value is dated strictly before the requested start.
C8_UndefinedPointBeforeStart ==
    (Calculated /\ RowInBuffer /\ RowFromStart) =>
        \A d \in DOMAIN period_return :
            period_return[d] = NaN => d < Strptime(start_date)

\* the coefficient cov / sqrt(vx * vy) of an entry is 1.0
IsOne(e) ==
    /\ ~e.nan
    /\ e.cov[1] > 0
    /\ RatDiv(e.cov, e.vx) = RatDiv(e.vy, e.cov)

\* two entries hold the same coefficient
SameCoefficient(e, f) ==
    /\ e.nan = f.nan
    /\ ~e.nan =>
          \/ e.cov[1] = 0 /\ f.cov[1] = 0
          \/ /\ (e.cov[1] > 0 /\ f.cov[1] > 0) \/ (e.cov[1] < 0 /\ f.cov[1] < 0)
             /\ RatDiv(RatDiv(e.cov, e.vx), RatDiv(f.cov, f.vy))
                  = RatDiv(RatDiv(f.cov, f.vx), RatDiv(e.cov, e.vy))

\* the values a theme has in the truncated window
Observations(n) ==
    {d \in DOMAIN themed_returns_data[n] : d >= Strptime(start_date)}
ObservedValues(n) == {themed_returns_data[n][d] : d \in Observations(n)}

Symmetric(m) == \A a \in DOMAIN m : \A b \in DOMAIN m : SameCoefficient(m[a][b], m[b][a])

\* C9 (as claimed): the correlation matrix of a success response is
\* symmetric, and its diagonal entry is 1.0 for every theme with at least 2
\* observations in the truncated window.
C9_SymmetricUnitDiagonal ==
    Succeeded =>
        LET m == response.correlation_matrix
        IN  /\ Symmetric(m)
            /\ \A a \in DOMAIN m :
                  Cardinality(Observations(a)) >= 2 => IsOne(m[a][a])

\* C9 (amended): the correlation matrix of a success response is symmetric,
\* and its diagonal entry is 1.0 for every theme with at least 2
\* observations in the truncated window that are not all equal.
C9_SymmetricUnitDiagonalUnlessConstant ==
    Succeeded =>
        LET m == response.correlation_matrix
        IN  /\ Symmetric(m)
            /\ \A a \in DOMAIN m :
                  Cardinality(ObservedValues(a)) >= 2 => IsOne(m[a][a])

\* two themes, each with two unequal observations, and a defined coefficient
\* between them that is not 1.0
C9_Witness ==
    /\ Succeeded
    /\ DOMAIN response.correlation_matrix = {"T1", "T2"}
    /\ Cardinality(ObservedValues("T1")) >= 2
    /\ Cardinality(ObservedValues("T2")) >= 2
    /\ ~response.correlation_matrix["T1"]["T2"].nan
    /\ ~IsOne(response.correlation_matrix["T1"]["T2"])
    /\ IsOne(response.correlation_matrix["T1"]["T1"])

\* the number of codes of the themes before theme i
RECURSIVE CodesBefore(_)
CodesBefore(i) == IF i <= 1 THEN 0 ELSE CodesBefore(i - 1) + Len(themes[i - 1].codes)

\* C10: themes are taken in request order and their codes in list order; the
\* price source is called exactly once per listed code, whatever the earlier
\* calls did, and every call is made before the response.
C10_OneFetchPerCodeInOrder ==
    ~RequestIncomplete =>
        /\ Len(fetch_log) <= Len(RequestedCodes)
        /\ FetchedCodes = SubSeq(RequestedCodes, 1, Len(fetch_log))
        /\ pc = "symbol" => Len(fetch_log) = CodesBefore(ti) + ci - 1
        /\ pc = "theme" => Len(fetch_log) = CodesBefore(ti)
        /\ response # NoResponse => pc = "done" /\ FetchedCodes = RequestedCodes

\* a fetch that raised, followed by the fetch of the next code, which
\* succeeded, and then the response
C10_Witness ==
    /\ Succeeded
    /\ Len(fetch_log) = 2
    /\ outcome[1].raised = "fetch"
    /\ outcome[2].appended
    /\ FetchedCodes = <<"A", "B">>

====
